---- MODULE Spec2Model ----
(***************************************************************************)
(* The web-search-results element (SearchResults, a LitElement):           *)
(* src/src/lib/components/SearchResults/index.js.                          *)
(*                                                                         *)
(* State: the reactive properties hits_, cursor, showHits and query, the   *)
(* element's pending update (LitElement batches property changes into one  *)
(* asynchronous update pass: render() then updated(changedProperties)),    *)
(* the callbacks scrollHitIntoView() chains on the update promise, the     *)
(* rendered output, the aria-activedescendant attribute and                *)
(* window.location.href.                                                   *)
(*                                                                         *)
(* Scheduling: property assignments and navigate() run synchronously in    *)
(* an event task, and several may run before the pending update pass. The  *)
(* update pass runs as a microtask; the reactions chained on its promise   *)
(* are queued when it completes and run in the same microtask checkpoint,  *)
(* before the next event task.                                             *)
(***************************************************************************)
EXTENDS Integers, Sequences, FiniteSets, TLC

\* ------------------------------------------------------------------ bounds
\* Longest ResultSet assigned through the hits setter.
MaxHits == 2
\* Most scroll callbacks chained on one pending update (navigate calls
\* batched before the update pass runs).
MaxPending == 2
\* Longest highlighted title, in characters and tag names (SpecTitle).
MaxTitleLen == 4

\* ------------------------------------------------------------------ values
\* The value JavaScript's % yields for a zero divisor. It is no index and
\* differs from -1; arithmetic on it yields it again (JsAdd, JsRem).
NaN == -99

\* A hit: url, and _highlightResult.title.value as a sequence of markup
\* tokens (<<>>: the title is absent or its value is empty).
Hits ==
  { [url |-> "/a", title |-> <<"t">>],
    [url |-> "/b", title |-> <<>>] }

RECURSIVE SeqsUpTo(_, _)
SeqsUpTo(S, n) ==
  IF n = 0 THEN { <<>> }
  ELSE LET shorter == SeqsUpTo(S, n - 1)
       IN shorter \cup { Append(s, x) : s \in { t \in shorter : Len(t) = n - 1 }, x \in S }

ResultSets == SeqsUpTo(Hits, MaxHits)

\* The characters of a highlighted title (SpecTitle): the markup characters,
\* two tag names and the backtick.
TitleChars == { "<", ">", "/", "&", "strong", "script", "backtick" }

Titles == SeqsUpTo(TitleChars, MaxTitleLen)

\* Query strings, as sequences of characters: empty, plain, whitespace
\* only, and with leading and trailing whitespace.
Queries == { <<>>, <<"c">>, <<" ">>, <<" ", "c", " ">> }

\* The keys navigate() is called with: the seven it dispatches on and two
\* it does not.
Keys == { "Home", "End", "Up", "ArrowUp", "Down", "ArrowDown", "Enter",
          "Escape", "Tab" }

StartPage == "/"

VARIABLES
  hits_,            \* this.hits_
  cursor,           \* this.cursor
  showHits,         \* this.showHits
  query,            \* this.query
  updateRequested,  \* an update pass is pending
  cursorChanged,    \* changedProperties.has('cursor') for the pending pass
  thens,            \* callbacks chained on the pending update's promise
  ready,            \* callbacks whose update completed, queued as microtasks
  dom,              \* renderRoot: the output of the last render()
  aria,             \* the aria-activedescendant attribute
  location,         \* window.location.href
  lastOp,           \* the operation the last step ran (history)
  changes,          \* cursor changes since the last update pass (history)
  pass              \* what the update pass of the last step did (history)

vars ==
  << hits_, cursor, showHits, query, updateRequested, cursorChanged, thens,
     ready, dom, aria, location, lastOp, changes, pass >>

\* ------------------------------------------------------------- arithmetic
JsAdd(a, b) == IF a = NaN \/ b = NaN THEN NaN ELSE a + b

\* JavaScript's %: NaN for a zero divisor, else the sign of the dividend.
JsRem(a, n) ==
  IF a = NaN \/ n = NaN \/ n = 0 THEN NaN
  ELSE IF a >= 0 THEN a % n ELSE 0 - ((0 - a) % n)

\* this.hits_[i]: whether index i holds a hit.
HasHit(hs, i) == i \in 0 .. Len(hs) - 1

HitAt(hs, i) == hs[i + 1]

\* ---------------------------------------------------------------- strings
IsSpace(ch) == ch = " "

RECURSIVE TrimStart(_)
TrimStart(s) ==
  IF s # <<>> /\ IsSpace(Head(s)) THEN TrimStart(Tail(s)) ELSE s

RECURSIVE TrimEnd(_)
TrimEnd(s) ==
  IF s # <<>> /\ IsSpace(s[Len(s)]) THEN TrimEnd(SubSeq(s, 1, Len(s) - 1)) ELSE s

\* String.prototype.trim
Trim(s) == TrimEnd(TrimStart(s))

\* window.encodeURIComponent, one character: a space is percent-encoded,
\* letters and '.' are kept.
EncodeChar(ch) == IF ch = " " THEN <<"%", "2", "0">> ELSE <<ch>>

RECURSIVE encodeURIComponent(_)
encodeURIComponent(s) ==
  IF s = <<>> THEN <<>> ELSE EncodeChar(Head(s)) \o encodeURIComponent(Tail(s))

SitePrefix == <<"w", "e", "b", ".", "d", "e", "v", " ">>

SearchBase == <<"https://google.com/search?q=">>

\* Mutant of searchUrl: the query is not trimmed.
searchUrl_NoTrim(q) == SearchBase \o encodeURIComponent(SitePrefix \o q)

\* The fallback link of the "no suggestions" message.
searchUrl(q) == SearchBase \o encodeURIComponent(SitePrefix \o Trim(q))

\* --------------------------------------------------------------- rendering
\* The id of the link rendered for index i, and the attribute's absence.
LinkId(i) == [prefix |-> "web-search-popout__link--", idx |-> i]

NoAttr == [prefix |-> "", idx |-> -1]

\* escapeHtml, one character: the markup characters become entities.
escapeChar(ch) ==
  CASE ch = "&" -> "&amp;"
    [] ch = "<" -> "&lt;"
    [] ch = ">" -> "&gt;"
    [] OTHER -> ch

\* escapeHtml(title)
escapeHtml(s) == [ i \in 1 .. Len(s) |-> escapeChar(s[i]) ]

\* allowHtml(escaped, tag): the escaped forms of <tag> and </tag> become
\* literal markup again, scanning from the left.
RECURSIVE allowHtml(_, _)
allowHtml(s, tag) ==
  IF s = <<>> THEN <<>>
  ELSE IF Len(s) >= 3 /\ SubSeq(s, 1, 3) = <<"&lt;", tag, "&gt;">>
  THEN <<"<", tag, ">">> \o allowHtml(SubSeq(s, 4, Len(s)), tag)
  ELSE IF Len(s) >= 4 /\ SubSeq(s, 1, 4) = <<"&lt;", "/", tag, "&gt;">>
  THEN <<"<", "/", tag, ">">> \o allowHtml(SubSeq(s, 5, Len(s)), tag)
  ELSE <<Head(s)>> \o allowHtml(Tail(s), tag)

\* The backtick character.
Backtick == "backtick"

\* title.replace(/`/g, '')
stripBackticks(s) == SelectSeq(s, LAMBDA ch : ch # Backtick)

\* Mutant of the title markup: the backticks are kept.
titleHtml_KeepBackticks(title) == allowHtml(escapeHtml(title), "strong")

\* The markup of a link's title: escaped except for <strong>, backticks
\* stripped.
titleHtml(title) == stripBackticks(allowHtml(escapeHtml(title), "strong"))

\* Mutant of itemsTemplate's entry: the class and aria-selected are compared
\* with the count of the hit, not its index.
itemTemplate_OneBased(hit, idx, cur) ==
  IF hit.title = <<>>
  THEN [link |-> FALSE, id |-> NoAttr, active |-> FALSE, selected |-> FALSE,
        href |-> "", title |-> <<>>]
  ELSE [link |-> TRUE, id |-> LinkId(idx), active |-> (idx + 1 = cur),
        selected |-> (idx + 1 = cur), href |-> hit.url,
        title |-> titleHtml(hit.title)]

\* One entry of itemsTemplate: html`` for a hit without a highlighted
\* title, else the <li><a> with its id, active class, aria-selected, href.
itemTemplate(hit, idx, cur) ==
  IF hit.title = <<>>
  THEN [link |-> FALSE, id |-> NoAttr, active |-> FALSE, selected |-> FALSE,
        href |-> "", title |-> <<>>]
  ELSE [link |-> TRUE, id |-> LinkId(idx), active |-> (idx = cur),
        selected |-> (idx = cur), href |-> hit.url,
        title |-> titleHtml(hit.title)]

\* The number of hits with a highlighted title among the first n.
RECURSIVE linksBefore(_, _)
linksBefore(hs, n) ==
  IF n = 0 THEN 0
  ELSE linksBefore(hs, n - 1) + (IF hs[n].title = <<>> THEN 0 ELSE 1)

\* Mutant of itemsTemplate: the hits without a title are dropped first, so
\* the links are numbered among themselves.
itemsTemplate_Renumber(hs, cur) ==
  [ i \in 1 .. Len(hs) |-> itemTemplate(hs[i], linksBefore(hs, i - 1), cur) ]

itemsTemplate(hs, cur) ==
  [ i \in 1 .. Len(hs) |-> itemTemplate(hs[i], i - 1, cur) ]

Unrendered == [kind |-> "unrendered", href |-> <<>>, items |-> <<>>]

Placeholder == [kind |-> "placeholder", href |-> <<>>, items |-> <<>>]

Nothing == [kind |-> "nothing", href |-> <<>>, items |-> <<>>]

NoSuggestions(q) == [kind |-> "nosuggestions", href |-> searchUrl(q), items |-> <<>>]

ResultList(hs, cur) == [kind |-> "list", href |-> <<>>, items |-> itemsTemplate(hs, cur)]

\* Mutant of render: the empty-ResultSet check comes before the visibility
\* check.
render_EmptyFirst(hs, cur, show, q) ==
  IF Len(hs) = 0
  THEN IF q = <<>> THEN Nothing ELSE NoSuggestions(q)
  ELSE IF ~show THEN Placeholder ELSE ResultList(hs, cur)

render(hs, cur, show, q) ==
  IF ~show THEN Placeholder
  ELSE IF Len(hs) = 0
       THEN IF q = <<>> THEN Nothing ELSE NoSuggestions(q)
       ELSE ResultList(hs, cur)

\* renderRoot.querySelector('.web-search-popout__link--active'): the
\* indices of the rendered links that carry the active class.
ActiveLinks(d) == { i \in 1 .. Len(d.items) : d.items[i].link /\ d.items[i].active }

\* Mutant of updated(): the attribute is written in every pass.
updatedWrites_Always(changed) == 1

\* The calls of setAttribute and removeAttribute one updated() makes.
updatedWrites(changed) == IF changed THEN 1 ELSE 0

\* Mutant of updated(): the attribute is always set, never removed.
updatedAria_NoRemove(changed, cur, old) ==
  IF ~changed THEN old ELSE LinkId(cur)

\* updated(): the attribute after the pass.
updatedAria(changed, cur, old) ==
  IF ~changed THEN old
  ELSE IF cur = -1 THEN NoAttr
  ELSE LinkId(cur)

\* ------------------------------------------------------------- the element
TypeOK ==
  /\ hits_ \in ResultSets
  /\ cursor \in (-1 .. MaxHits) \cup {NaN}
  /\ showHits \in BOOLEAN
  /\ query \in Queries
  /\ updateRequested \in BOOLEAN
  /\ cursorChanged \in BOOLEAN
  /\ thens \in 0 .. MaxPending
  /\ ready \in 0 .. MaxPending

\* No update pass ran in the last step.
NoPass == [ran |-> FALSE, first |-> FALSE, changes |-> 0, writes |-> 0]

\* The constructor: hits = [] (the setter: hits_ = [], cursor = -1),
\* hits_ = [], showHits = false, cursor = -1, query = ''. The property
\* assignments request the first update pass; nothing is rendered yet. The
\* assignment of cursor is its first change (from undefined).
Init ==
  /\ hits_ = <<>>
  /\ cursor = -1
  /\ showHits = FALSE
  /\ query = <<>>
  /\ updateRequested = TRUE
  /\ cursorChanged = TRUE
  /\ thens = 0
  /\ ready = 0
  /\ dom = Unrendered
  /\ aria = NoAttr
  /\ location = StartPage
  /\ lastOp = "constructor"
  /\ changes = 1
  /\ pass = NoPass

\* A synchronous call into the element runs in an event task: the
\* microtasks of the previous task (the scroll callbacks of a completed
\* update) have run. Assigning window.location.href leaves the page: no
\* later event task reaches the element (its pending microtasks still run).
InTask == ready = 0 /\ location = StartPage

\* LitElement's property setter for cursor: a value that differs from the
\* current one (NaN does not differ from NaN) is recorded in
\* changedProperties and requests an update.
setCursor(c) ==
  /\ cursor' = c
  /\ cursorChanged' = (cursorChanged \/ c # cursor)

\* Mutant of the hits setter: the cursor is kept.
setHits_KeepCursor(hs) ==
  /\ InTask
  /\ hits_' = hs
  /\ updateRequested' = TRUE
  /\ lastOp' = "hits"
  /\ UNCHANGED << cursor, cursorChanged, showHits, query, thens, ready, dom,
                  aria, location >>

\* set hits(hits)
setHits(hs) ==
  /\ InTask
  /\ hits_' = hs
  /\ setCursor(-1)
  /\ updateRequested' = TRUE
  /\ lastOp' = "hits"
  /\ UNCHANGED << showHits, query, thens, ready, dom, aria, location >>

\* Mutant of the showHits property: hiding the results clears the cursor.
setShowHits_ResetCursor(b) ==
  /\ InTask
  /\ showHits' = b
  /\ updateRequested' = (updateRequested \/ b # showHits \/ (~b /\ cursor # -1))
  /\ (IF b THEN UNCHANGED << cursor, cursorChanged >> ELSE setCursor(-1))
  /\ lastOp' = "showHits"
  /\ UNCHANGED << hits_, query, thens, ready, dom, aria, location >>

setShowHits(b) ==
  /\ InTask
  /\ showHits' = b
  /\ updateRequested' = (updateRequested \/ b # showHits)
  /\ lastOp' = "showHits"
  /\ UNCHANGED << hits_, cursor, query, cursorChanged, thens, ready, dom,
                  aria, location >>

setQuery(q) ==
  /\ InTask
  /\ query' = q
  /\ updateRequested' = (updateRequested \/ q # query)
  /\ lastOp' = "query"
  /\ UNCHANGED << hits_, cursor, showHits, cursorChanged, thens, ready, dom,
                  aria, location >>

\* Mutant of scrollHitIntoView: the callback is queued as a microtask of
\* its own and does not wait for the update pass.
scrollHitIntoView_NoWait ==
  /\ updateRequested' = TRUE
  /\ ready' = ready + 1
  /\ UNCHANGED thens

\* scrollHitIntoView(): requestUpdate() requests an update pass even when no
\* property changed, and the callback is chained on that pass's promise.
scrollHitIntoView ==
  /\ updateRequested' = TRUE
  /\ thens' = thens + 1
  /\ UNCHANGED ready

firstHitCursor(cur, len) == 0

lastHitCursor(cur, len) == len - 1

\* Mutants of nextHit: no wrap at the end; a wrap to "none selected".
nextHitCursor_NoWrap(cur, len) == JsAdd(cur, 1)

nextHitCursor_WrapToNone(cur, len) ==
  IF cur = len - 1 THEN -1 ELSE JsRem(JsAdd(cur, 1), len)

nextHitCursor(cur, len) == JsRem(JsAdd(cur, 1), len)

\* Mutant of prevHit: no special case for "none selected".
prevHitCursor_NoEntry(cur, len) == JsRem(JsAdd(JsAdd(cur, -1), len), len)

prevHitCursor(cur, len) ==
  IF cur = -1 THEN len - 1
  ELSE JsRem(JsAdd(JsAdd(cur, -1), len), len)

\* firstHit / lastHit / nextHit / prevHit
moveCursor(c) ==
  /\ thens < MaxPending
  /\ setCursor(c)
  /\ scrollHitIntoView
  /\ UNCHANGED << hits_, showHits, query, dom, aria, location >>

firstHit == moveCursor(firstHitCursor(cursor, Len(hits_)))

lastHit == moveCursor(lastHitCursor(cursor, Len(hits_)))

nextHit == moveCursor(nextHitCursor(cursor, Len(hits_)))

prevHit == moveCursor(prevHitCursor(cursor, Len(hits_)))

\* navigateToHit({url})
navigateToHit(hit) == location' = hit.url

\* Mutant of case 'Enter': without a selected hit the first hit is taken.
activate_DefaultFirst ==
  /\ IF HasHit(hits_, cursor)
     THEN navigateToHit(HitAt(hits_, cursor))
     ELSE IF hits_ # <<>> THEN navigateToHit(HitAt(hits_, 0))
     ELSE UNCHANGED location
  /\ UNCHANGED << hits_, cursor, showHits, query, updateRequested,
                  cursorChanged, thens, ready, dom, aria >>

\* case 'Enter'
activate ==
  /\ IF HasHit(hits_, cursor)
     THEN navigateToHit(HitAt(hits_, cursor))
     ELSE UNCHANGED location
  /\ UNCHANGED << hits_, cursor, showHits, query, updateRequested,
                  cursorChanged, thens, ready, dom, aria >>

\* Mutant of navigate: the IE/Edge key value 'Down' has no case.
navigate_NoDown(key) ==
  /\ InTask
  /\ lastOp' = key
  /\ CASE key = "Home" -> firstHit
       [] key = "End" -> lastHit
       [] key \in {"Up", "ArrowUp"} -> prevHit
       [] key = "ArrowDown" -> nextHit
       [] key = "Enter" -> activate
       [] OTHER ->
            UNCHANGED << hits_, cursor, showHits, query, updateRequested,
                         cursorChanged, thens, ready, dom, aria, location >>

\* Mutant of navigate: a key without a case moves to the next hit.
navigate_DefaultNext(key) ==
  /\ InTask
  /\ lastOp' = key
  /\ CASE key = "Home" -> firstHit
       [] key = "End" -> lastHit
       [] key \in {"Up", "ArrowUp"} -> prevHit
       [] key = "Enter" -> activate
       [] OTHER -> nextHit

navigate(key) ==
  /\ InTask
  /\ lastOp' = key
  /\ CASE key = "Home" -> firstHit
       [] key = "End" -> lastHit
       [] key \in {"Up", "ArrowUp"} -> prevHit
       [] key \in {"Down", "ArrowDown"} -> nextHit
       [] key = "Enter" -> activate
       [] OTHER ->
            UNCHANGED << hits_, cursor, showHits, query, updateRequested,
                         cursorChanged, thens, ready, dom, aria, location >>

\* The update pass: render(), then updated(changedProperties); the promise
\* of the pass resolves and queues the callbacks chained on it.
performUpdate ==
  /\ updateRequested
  /\ dom' = render(hits_, cursor, showHits, query)
  /\ aria' = updatedAria(cursorChanged, cursor, aria)
  /\ updateRequested' = FALSE
  /\ cursorChanged' = FALSE
  /\ ready' = ready + thens
  /\ thens' = 0
  /\ lastOp' = "update"
  /\ UNCHANGED << hits_, cursor, showHits, query, location >>

\* The callback of scrollHitIntoView: querySelector(...).scrollIntoView(),
\* a TypeError when no link is active.
scrollCallback ==
  /\ ready > 0
  /\ ready' = ready - 1
  /\ lastOp' = (IF ActiveLinks(dom) # {} THEN "scrollIntoView" ELSE "TypeError")
  /\ UNCHANGED << hits_, cursor, showHits, query, updateRequested,
                  cursorChanged, thens, dom, aria, location >>

\* The history of cursor changes and attribute writes is kept by SpecWrites
\* only; Spec leaves it as the constructor set it.
Untracked == UNCHANGED << changes, pass >>

Next ==
  \/ (\E hs \in ResultSets : setHits(hs)) /\ Untracked
  \/ (\E b \in BOOLEAN : setShowHits(b)) /\ Untracked
  \/ (\E q \in Queries : setQuery(q)) /\ Untracked
  \/ (\E key \in Keys : navigate(key)) /\ Untracked
  \/ performUpdate /\ Untracked
  \/ scrollCallback /\ Untracked

Spec == Init /\ [][Next]_vars

\* The history a step adds: a step that changes the cursor counts one
\* change; an update pass records the changes it covers and the attribute
\* writes its updated() makes, and starts the count again.
Track ==
  /\ changes' =
       (IF lastOp' = "update" THEN 0
        ELSE changes + (IF cursor' # cursor THEN 1 ELSE 0))
  /\ pass' =
       (IF lastOp' = "update"
        THEN [ran |-> TRUE, first |-> (dom = Unrendered), changes |-> changes,
              writes |-> updatedWrites(cursorChanged)]
        ELSE NoPass)

\* The element with the history kept. The query, which neither the cursor
\* nor updated() reads, stays empty.
NextWrites ==
  \/ (\E hs \in ResultSets : setHits(hs)) /\ Track
  \/ (\E b \in BOOLEAN : setShowHits(b)) /\ Track
  \/ (\E key \in Keys : navigate(key)) /\ Track
  \/ performUpdate /\ Track
  \/ scrollCallback /\ Track

SpecWrites == Init /\ [][NextWrites]_vars

\* The element after construction and the assignment of one hit with a
\* highlighted title, before its first update pass.
InitTitle ==
  /\ hits_ \in { <<[url |-> "/a", title |-> t]>> : t \in Titles }
  /\ cursor = -1
  /\ showHits = FALSE
  /\ query = <<>>
  /\ updateRequested = TRUE
  /\ cursorChanged = TRUE
  /\ thens = 0
  /\ ready = 0
  /\ dom = Unrendered
  /\ aria = NoAttr
  /\ location = StartPage
  /\ lastOp = "hits"
  /\ changes = 1
  /\ pass = NoPass

\* That element shown, hidden and rendered.
NextTitle ==
  \/ (\E b \in BOOLEAN : setShowHits(b)) /\ Untracked
  \/ performUpdate /\ Untracked

SpecTitle == InitTitle /\ [][NextTitle]_vars

\* ------------------------------------------------------------------ claims
PrevKeys == { "Up", "ArrowUp" }

NextKeys == { "Down", "ArrowDown" }

RecognizedKeys == { "Home", "End", "Enter" } \cup PrevKeys \cup NextKeys

\* The attribute that is in sync with cursor value c.
InSync(c) == IF c = -1 THEN NoAttr ELSE LinkId(c)

\* C1: a step of the hits setter leaves cursor = -1, whatever the cursor and
\* the ResultSets before and after.
C1_SetHitsResetsCursor ==
  [][ (\E hs \in ResultSets : setHits(hs)) => cursor' = -1 ]_vars

\* C1 witness: the setter has just run on an element whose cursor had been
\* moved to a hit and rendered (the attribute still names that hit).
C1_Witness ==
  /\ lastOp = "hits"
  /\ cursor = -1
  /\ aria = LinkId(1)
  /\ cursorChanged
  /\ hits_ # <<>>

\* C2: with a non-empty ResultSet, -1 <= cursor < length in every reachable
\* state.
C2_CursorInRange ==
  hits_ # <<>> => cursor \in -1 .. Len(hits_) - 1

\* C2 witness: nextHit has moved the cursor onto the last index of a
\* ResultSet of two or more hits.
C2_Witness ==
  /\ lastOp \in NextKeys
  /\ Len(hits_) >= 2
  /\ cursor = Len(hits_) - 1

\* The cursor after k calls of nextHit on a ResultSet of length len.
RECURSIVE nextTimes(_, _, _)
nextTimes(k, cur, len) ==
  IF k = 0 THEN cur ELSE nextTimes(k - 1, nextHitCursor(cur, len), len)

\* C3 as claimed: from every cursor the element holds over a non-empty
\* ResultSet of length n, -1 included, n calls of nextHit return the cursor
\* to its value.
C3_Original ==
  hits_ # <<>> => nextTimes(Len(hits_), cursor, Len(hits_)) = cursor

\* C3 amended: from every cursor that is an index of a non-empty ResultSet
\* of length n, n calls of nextHit return the cursor to its value; from -1
\* they end on n - 1.
C3_NextCycle ==
  hits_ # <<>> =>
    nextTimes(Len(hits_), cursor, Len(hits_)) =
      (IF cursor = -1 THEN Len(hits_) - 1 ELSE cursor)

\* C3 witness: nextHit has wrapped from the last index of a ResultSet of two
\* or more hits back to index 0.
C3_Witness ==
  /\ lastOp \in NextKeys
  /\ Len(hits_) >= 2
  /\ cursor = 0
  /\ aria = LinkId(Len(hits_) - 1)
  /\ thens = 1

\* C4: on a non-empty ResultSet a prevHit step sets the cursor to length-1
\* from -1 and from 0, and to i-1 from any other index i.
C4_PrevHit ==
  [][ (\E key \in PrevKeys : navigate(key)) /\ hits_ # <<>> =>
        cursor' = (IF cursor \in {-1, 0} THEN Len(hits_) - 1 ELSE cursor - 1)
    ]_vars

\* C4 witness: prevHit has wrapped from a rendered index 0 to the last index
\* of a ResultSet of two or more hits.
C4_Witness ==
  /\ lastOp \in PrevKeys
  /\ Len(hits_) >= 2
  /\ cursor = Len(hits_) - 1
  /\ aria = LinkId(0)
  /\ thens = 1

\* C5: an Enter step assigns window.location.href only when the cursor
\* indexes a hit, and then that hit's url; otherwise the location is kept;
\* cursor and ResultSet are kept in both cases.
C5_Enter ==
  [][ navigate("Enter") =>
        /\ cursor' = cursor
        /\ hits_' = hits_
        /\ location' = (IF cursor \in 0 .. Len(hits_) - 1
                        THEN hits_[cursor + 1].url
                        ELSE location)
    ]_vars

\* C5 witness: Enter has navigated to the url of the second hit.
C5_Witness ==
  /\ lastOp = "Enter"
  /\ cursor = 1
  /\ Len(hits_) >= 2
  /\ location = hits_[2].url

\* C5, the guarded case: Enter has run with the cursor left NaN by
\* empty-list arithmetic and did not navigate.
C5_GuardedCase ==
  /\ lastOp = "Enter"
  /\ cursor = NaN
  /\ location = StartPage

\* C6: when no update pass is pending, aria-activedescendant is absent if
\* cursor = -1 and else names the link of index cursor.
C6_AriaInSync ==
  ~updateRequested => aria = InSync(cursor)

\* C6 witness: an update pass has completed after the ResultSet was replaced
\* while a hit was selected, and the attribute is removed again.
C6_Witness ==
  /\ lastOp = "update"
  /\ cursor = -1
  /\ aria = NoAttr
  /\ hits_ # <<>>
  /\ dom.kind = "list"
  /\ ready > 0

\* C7: when a scroll callback is about to run, the rendered output is the
\* rendering of the current state, so a link marked active is the one at
\* the current cursor.
C7_ScrollAfterRender ==
  ready > 0 =>
    /\ dom = render(hits_, cursor, showHits, query)
    /\ \A i \in ActiveLinks(dom) : i - 1 = cursor

\* C7 witness: a callback is about to scroll the link of index 1, which two
\* batched moves selected.
C7_Witness ==
  /\ ready = 2
  /\ cursor = 1
  /\ ActiveLinks(dom) = {2}

\* C8: with showHits false, a completed update pass leaves only the empty
\* placeholder: no entries, no fallback link, whatever hits_, cursor and
\* query are.
C8_HiddenPlaceholder ==
  ~updateRequested /\ ~showHits =>
    /\ dom.kind = "placeholder"
    /\ dom.items = <<>>
    /\ dom.href = <<>>

\* C8 witness: an update pass has rendered a hidden element whose ResultSet
\* is empty and whose query is not.
C8_Witness ==
  /\ lastOp = "update"
  /\ ~showHits
  /\ hits_ = <<>>
  /\ query # <<>>
  /\ dom = Placeholder

\* C9 as claimed: visible with an empty ResultSet, the element renders
\* nothing for an empty query and else the message whose link encodes
\* "web.dev " + query, for every non-empty query.
C9_Original ==
  ~updateRequested /\ showHits /\ hits_ = <<>> =>
    IF query = <<>> THEN dom = Nothing
    ELSE /\ dom.kind = "nosuggestions"
         /\ dom.href = SearchBase \o encodeURIComponent(SitePrefix \o query)

\* The query without its leading and trailing spaces, by positions.
Trimmed(q) ==
  LET inked == { i \in 1 .. Len(q) : q[i] # " " }
  IN IF inked = {} THEN <<>>
     ELSE LET lo == CHOOSE i \in inked : \A j \in inked : i <= j
              hi == CHOOSE i \in inked : \A j \in inked : i >= j
          IN [ k \in 1 .. hi - lo + 1 |-> q[lo + k - 1] ]

\* The percent-encoding of a string, by characters.
RECURSIVE Encoded(_)
Encoded(str) ==
  IF str = <<>> THEN <<>>
  ELSE (IF Head(str) = " " THEN <<"%", "2", "0">> ELSE <<Head(str)>>)
       \o Encoded(Tail(str))

\* C9 amended: visible with an empty ResultSet, the element renders nothing
\* for an empty query and else the message whose link encodes "web.dev " +
\* the query without its leading and trailing whitespace.
C9_FallbackLink ==
  ~updateRequested /\ showHits /\ hits_ = <<>> =>
    IF query = <<>> THEN dom = Nothing
    ELSE /\ dom.kind = "nosuggestions"
         /\ dom.items = <<>>
         /\ dom.href = <<"https://google.com/search?q=">>
                         \o Encoded(<<"w", "e", "b", ".", "d", "e", "v", " ">>
                                      \o Trimmed(query))

\* C9 witness: the message is rendered for a query with leading and
\* trailing whitespace.
C9_Witness ==
  /\ lastOp = "update"
  /\ showHits
  /\ hits_ = <<>>
  /\ query = <<" ", "c", " ">>
  /\ dom.kind = "nosuggestions"

\* C10: a navigate step with a key other than Home, End, Up, ArrowUp, Down,
\* ArrowDown and Enter changes nothing: no property, no requested update or
\* scroll, no navigation, no rendered output.
C10_UnrecognizedKey ==
  [][ (\E key \in Keys \ RecognizedKeys : navigate(key)) =>
        UNCHANGED << hits_, cursor, showHits, query, updateRequested,
                     cursorChanged, thens, ready, dom, aria, location >>
    ]_vars

\* C10 witness: such a key has been pressed with a hit selected and
\* rendered.
C10_Witness ==
  /\ lastOp \in Keys \ RecognizedKeys
  /\ cursor = 1
  /\ aria = LinkId(1)
  /\ ~updateRequested
  /\ dom.kind = "list"

\* C11: in a rendered result list a link carries the active class and
\* aria-selected = true if and only if its index equals the cursor; so at
\* most one link is active, and none when cursor = -1.
C11_ActiveIffCursor ==
  ~updateRequested /\ dom.kind = "list" =>
    /\ \A i \in 1 .. Len(dom.items) :
         dom.items[i].link =>
           /\ dom.items[i].active <=> (i - 1 = cursor)
           /\ dom.items[i].selected <=> (i - 1 = cursor)
    /\ Cardinality({ i \in 1 .. Len(dom.items) : dom.items[i].active }) <= 1
    /\ cursor = -1 => \A i \in 1 .. Len(dom.items) : ~dom.items[i].active

\* C11 witness: two links are rendered, the second is active and the first
\* is not.
C11_Witness ==
  /\ ~updateRequested
  /\ cursor = 1
  /\ Len(dom.items) = 2
  /\ dom.items[1].link /\ ~dom.items[1].active /\ ~dom.items[1].selected
  /\ dom.items[2].link /\ dom.items[2].active /\ dom.items[2].selected

\* C12 as claimed (for the passes after the first): the attribute writes of
\* an update pass are as many as the cursor changes since the pass before.
C12_Original ==
  pass.ran /\ ~pass.first => pass.writes = pass.changes

\* C12 amended: an update pass writes the attribute exactly once if the
\* cursor changed since the pass before, however often, and not at all if
\* it did not change.
C12_OneWritePerPass ==
  pass.ran => pass.writes = (IF pass.changes > 0 THEN 1 ELSE 0)

\* C12 witness: a pass after the first has covered two cursor changes with
\* one write.
C12_Witness ==
  /\ pass.ran
  /\ ~pass.first
  /\ pass.changes = 2
  /\ pass.writes = 1

\* C12, the idempotent case: a pass after a move that kept the cursor's
\* value made no write.
C12_NoChangeCase ==
  /\ pass.ran
  /\ pass.changes = 0
  /\ pass.writes = 0
  /\ ready > 0

\* The occurrences of the sequence pat in the sequence str.
Occurrences(pat, str) ==
  Cardinality({ i \in 1 .. Len(str) - Len(pat) + 1 :
                  SubSeq(str, i, i + Len(pat) - 1) = pat })

\* The occurrences of <strong> and </strong> in a sequence of characters.
StrongTags(str) ==
  Occurrences(<<"<", "strong", ">">>, str)
    + Occurrences(<<"<", "/", "strong", ">">>, str)

\* C13: the rendered title of a link keeps each <strong> and </strong> of
\* the highlighted title as markup, holds every other markup character as
\* an entity, and holds no backtick.
C13_TitleMarkup ==
  dom.kind = "list" /\ dom.items[1].link =>
    LET in == hits_[1].title
        out == dom.items[1].title
    IN /\ StrongTags(out) = StrongTags(in)
       /\ Occurrences(<<"<">>, out) = StrongTags(in)
       /\ Occurrences(<<">">>, out) = StrongTags(in)
       /\ Occurrences(<<"&lt;">>, out) = Occurrences(<<"<">>, in) - StrongTags(in)
       /\ Occurrences(<<"&gt;">>, out) = Occurrences(<<">">>, in) - StrongTags(in)
       /\ Occurrences(<<"&amp;">>, out) = Occurrences(<<"&">>, in)
       /\ Occurrences(<<"&">>, out) = 0
       /\ Occurrences(<<"backtick">>, out) = 0

\* C13 witness: a title of a backtick and a <strong> tag is rendered as the
\* tag alone.
C13_Witness ==
  /\ dom.kind = "list"
  /\ hits_[1].title = << "backtick", "<", "strong", ">" >>
  /\ dom.items[1].title = << "<", "strong", ">" >>

\* C13, the escaped case: a <script> tag is rendered as text.
C13_ScriptCase ==
  /\ dom.kind = "list"
  /\ hits_[1].title = << "<", "script", ">" >>
  /\ dom.items[1].title = << "&lt;", "script", "&gt;" >>

\* C17: a rendered result list has one entry per hit; the entry is a link
\* if and only if the hit has a non-empty highlighted title, and the link's
\* id names the hit's index in the ResultSet, so no two links share an id.
C17_LinkIds ==
  ~updateRequested /\ dom.kind = "list" =>
    /\ Len(dom.items) = Len(hits_)
    /\ \A i \in 1 .. Len(dom.items) :
         /\ dom.items[i].link <=> (hits_[i].title # <<>>)
         /\ dom.items[i].link =>
              dom.items[i].id =
                [prefix |-> "web-search-popout__link--", idx |-> i - 1]
    /\ \A i, j \in 1 .. Len(dom.items) :
         dom.items[i].link /\ dom.items[j].link /\ i # j =>
           dom.items[i].id # dom.items[j].id

\* C17 witness: the first hit has no title and the second is rendered with
\* the id of index 1.
C17_Witness ==
  /\ ~updateRequested
  /\ Len(dom.items) = 2
  /\ ~dom.items[1].link
  /\ dom.items[2].link
  /\ dom.items[2].id.idx = 1

MoveKeys == { "Home", "End" } \cup PrevKeys \cup NextKeys

\* C14: on an empty ResultSet a step of Home, End, Up, ArrowUp, Down or
\* ArrowDown leaves the cursor at the value it had.
C14_EmptyListNoop ==
  [][ (\E key \in MoveKeys : navigate(key)) /\ hits_ = <<>> =>
        cursor' = cursor ]_vars

\* C15: on a non-empty ResultSet of length n a step of Down or ArrowDown
\* sets the cursor to (cursor + 1) mod n.
C15_NextHit ==
  [][ \A key \in NextKeys :
        navigate(key) /\ hits_ # <<>> =>
          cursor' = (cursor + 1) % Len(hits_) ]_vars

\* C15 witness: Down has selected index 0 from "none selected", before any
\* hit was rendered as active.
C15_Witness ==
  /\ lastOp = "Down"
  /\ hits_ # <<>>
  /\ cursor = 0
  /\ aria = NoAttr
  /\ thens = 1
  /\ dom.kind = "list"

\* C16: a step that assigns showHits or query, an update pass, a scroll
\* callback and an Enter step leave the cursor unchanged.
C16_CursorFrame ==
  [][ ( \/ \E b \in BOOLEAN : setShowHits(b)
        \/ \E q \in Queries : setQuery(q)
        \/ performUpdate
        \/ scrollCallback
        \/ navigate("Enter") ) => cursor' = cursor ]_vars

\* C16 witness: the results were hidden while the second hit was selected
\* and rendered, and the cursor is kept.
C16_Witness ==
  /\ lastOp = "showHits"
  /\ ~showHits
  /\ cursor = 1
  /\ ActiveLinks(dom) = {2}
  /\ updateRequested

\* C18: when no update pass is pending and aria-activedescendant is present,
\* a rendered link has the id it names.
C18_AriaReferencesLink ==
  ~updateRequested /\ aria # NoAttr =>
    \E i \in 1 .. Len(dom.items) :
      dom.items[i].link /\ dom.items[i].id = aria

\* C19: when a scroll callback is about to run, a rendered link carries the
\* active class.
C19_ScrollFindsElement ==
  ready > 0 => ActiveLinks(dom) # {}

====
